---- MODULE Spec2Model ----
(***************************************************************************)
(* Model of scan_archive.py and archive_patterns.py.                       *)
(*                                                                         *)
(* A Python str is a sequence of one-character strings, so slicing,        *)
(* offsets, prefixes and lengths are computed as the code computes them.   *)
(* Python's None is the value NONE.                                        *)
(***************************************************************************)
EXTENDS Integers, Sequences, FiniteSets, TLC

VARIABLES
    archive,      \* args.archive, the positional argument
    pc,           \* position of the process
    err,          \* the exception that ended the run, or NONE
    fs,           \* the archive tree under MANUAL_ARCHIVE_ROOT (read only)
    top,          \* iterate_manual_archive: sorted entries still to visit
    stack,        \* iterate_files: one frame per active generator
    entry,        \* the entry yielded to write_record, or NONE
    yielded,      \* history: every entry yielded so far
    writer,       \* the ManifestWriter's fields, or NONE before __init__
    open_files,   \* file objects that are open: records [fd, name]
    files,        \* contents of the working directory: name -> rows
    next_fd,      \* next file object identity
    opened,       \* history: months passed to _open_new_month
    log,          \* history: records written by logger
    env,          \* history: syscalls that failed
    call,         \* ArchivePattern.match under test: [pat, path]
    ret           \* its outcome, or NONE before the call

vars == <<archive, pc, err, fs, top, stack, entry, yielded, writer, open_files,
          files, next_fd, opened, log, env, call, ret>>

\* None where a str is expected: no str is this sequence
NONE == <<"None">>

\* no exception
NOEXC == "None"

(***************************************************************************)
(* str                                                                     *)
(***************************************************************************)
Digits == {"0", "1", "2", "3", "4", "5", "6", "7", "8", "9"}

\* The characters the model uses, in code point order.
Alphabet == <<"+", "-", ".", "/", "0", "1", "2", "3", "4", "5", "6", "7", "8",
              "9", ":", "T", "_", "a", "b", "c", "d", "e", "f", "g", "h", "i",
              "j", "k", "l", "m", "n", "o", "p", "q", "r", "s", "t", "u", "v",
              "w", "x", "y", "z">>

Ord(c) == CHOOSE i \in 1..Len(Alphabet) : Alphabet[i] = c

Min(a, b) == IF a <= b THEN a ELSE b

\* s[i:j] and s[i:] with 0 <= i
Slice(s, i, j) == SubSeq(s, i + 1, Min(j, Len(s)))

SliceFrom(s, i) == SubSeq(s, i + 1, Len(s))

startswith(s, p) == Len(s) >= Len(p) /\ SubSeq(s, 1, Len(p)) = p

AllDigits(s) == \A i \in 1..Len(s) : s[i] \in Digits

\* a < b for str: the first differing character decides, a proper prefix is less
StrLess(a, b) ==
    \E i \in 1..(Min(Len(a), Len(b)) + 1) :
        /\ \A j \in 1..(i - 1) : a[j] = b[j]
        /\ \/ i = Len(a) + 1 /\ i <= Len(b)
           \/ i <= Len(a) /\ i <= Len(b) /\ Ord(a[i]) < Ord(b[i])

\* faulty variant: the truth test of line 130 left out
Truthy_any(x) == TRUE

Truthy(x) == x # NONE /\ x # <<>>

(***************************************************************************)
(* archive_patterns.py                                                     *)
(***************************************************************************)
AUTO == <<"a","u","t","o">>

MANUAL == <<"m","a","n","u","a","l">>

\* r'/stornext/snfsa/archive/archive_jobs/20(\d\d)/(\d\d)/(20\1\2\d{6})/'
\* matched at the start of path, with its groups
AutoRe(path) ==
    LET pre == <<"/","s","t","o","r","n","e","x","t","/","s","n","f","s","a",
                 "/","a","r","c","h","i","v","e","/","a","r","c","h","i","v",
                 "e","_","j","o","b","s","/">>
        n == Len(pre)
    IN  IF /\ Len(path) >= n + 21
           /\ startswith(path, pre)
           /\ SubSeq(path, n + 1, n + 2) = <<"2","0">>
           /\ AllDigits(SubSeq(path, n + 3, n + 4))
           /\ path[n + 5] = "/"
           /\ AllDigits(SubSeq(path, n + 6, n + 7))
           /\ path[n + 8] = "/"
           /\ SubSeq(path, n + 9, n + 10) = <<"2","0">>
           /\ SubSeq(path, n + 11, n + 12) = SubSeq(path, n + 3, n + 4)
           /\ SubSeq(path, n + 13, n + 14) = SubSeq(path, n + 6, n + 7)
           /\ AllDigits(SubSeq(path, n + 15, n + 20))
           /\ path[n + 21] = "/"
        THEN [matched |-> TRUE,
              group |-> <<SubSeq(path, n + 3, n + 4), SubSeq(path, n + 6, n + 7),
                          SubSeq(path, n + 9, n + 20)>>]
        ELSE [matched |-> FALSE, group |-> <<>>]

\* r'/stornext/snfsa/archive/(20\d{10})/'
ManualRe(path) ==
    LET pre == <<"/","s","t","o","r","n","e","x","t","/","s","n","f","s","a",
                 "/","a","r","c","h","i","v","e","/">>
        n == Len(pre)
    IN  IF /\ Len(path) >= n + 13
           /\ startswith(path, pre)
           /\ SubSeq(path, n + 1, n + 2) = <<"2","0">>
           /\ AllDigits(SubSeq(path, n + 3, n + 12))
           /\ path[n + 13] = "/"
        THEN [matched |-> TRUE, group |-> <<SubSeq(path, n + 1, n + 12)>>]
        ELSE [matched |-> FALSE, group |-> <<>>]

\* faulty variant: the offset one short
AUTO_PATTERN_short ==
    [pattern |-> "AutoRe", offset |-> 56, timestamp_group |-> 3, archive |-> AUTO]

AUTO_PATTERN ==
    [pattern |-> "AutoRe", offset |-> 57, timestamp_group |-> 3, archive |-> AUTO]

MANUAL_PATTERN ==
    [pattern |-> "ManualRe", offset |-> 36, timestamp_group |-> 1,
     archive |-> MANUAL]

\* self.pattern.match(path)
re_match(pat, path) ==
    IF pat.pattern = "AutoRe" THEN AutoRe(path) ELSE ManualRe(path)

\* input='201401021255'; output='2014-01-02T12:55:00'; NONE when the assert fails
time_str_to_iso(timestamp) ==
    IF Len(timestamp) # 12 THEN NONE
    ELSE Slice(timestamp, 0, 4) \o <<"-">> \o Slice(timestamp, 4, 6) \o <<"-">>
         \o Slice(timestamp, 6, 8) \o <<"T">> \o Slice(timestamp, 8, 10)
         \o <<":">> \o Slice(timestamp, 10, 12) \o <<":","0","0">>

NoMatch == [exc |-> NOEXC, archive_time_str |-> NONE, archive |-> NONE,
            original_path |-> NONE]

Raised(e) == [exc |-> e, archive_time_str |-> NONE, archive |-> NONE,
              original_path |-> NONE]

\* faulty variant: the legacy token replaced instead of prefixed
legacy_rewrite_replace(original_path) ==
    <<"/","s","t","o","r","n","e","x","t">> \o SliceFrom(original_path, 5)

\* '/stornext' + original_path
legacy_rewrite(original_path) ==
    <<"/","s","t","o","r","n","e","x","t">> \o original_path

\* ArchivePattern.match: (archive_time_str, archive, original_path), or
\* (None, None, None), or an AssertionError
match(pat, path) ==
    LET m == re_match(pat, path) IN
    IF ~m.matched THEN NoMatch
    ELSE
      LET timestamp == m.group[pat.timestamp_group]
          archive_time_str == time_str_to_iso(timestamp)
          original_path == SliceFrom(path, pat.offset)
      IN  IF archive_time_str = NONE THEN Raised("AssertionError")
          ELSE IF startswith(original_path, <<"/","s","n","f","s">>)
          THEN IF pat.archive # MANUAL THEN Raised("AssertionError")
               ELSE [exc |-> NOEXC, archive_time_str |-> archive_time_str,
                     archive |-> pat.archive,
                     original_path |-> legacy_rewrite(original_path)]
          ELSE [exc |-> NOEXC, archive_time_str |-> archive_time_str,
                archive |-> pat.archive, original_path |-> original_path]

(***************************************************************************)
(* The archive tree.  A node is [p |-> <<name, ...>>, k |-> kind]: p is    *)
(* the node's names below MANUAL_ARCHIVE_ROOT, k what DirEntry's is_dir,   *)
(* is_file and is_symlink (none following symlinks) say of it; the kind    *)
(* "unstatable" is an entry whose type the listing does not give and whose *)
(* lstat fails, so that is_dir raises OSError.  A symlink is a link to the *)
(* directory that holds it (name -> .).                                    *)
(***************************************************************************)
MaxTop == 2      \* entries directly under the root

MaxNested == 2   \* entries below the first level, in the whole tree

MANUAL_ARCHIVE_ROOT ==
    <<"/","s","t","o","r","n","e","x","t","/","s","n","f","s","a","/","a","r",
      "c","h","i","v","e">>

JobJan02 == <<"2","0","1","4","0","1","0","2","1","2","5","5">>

JobJan15 == <<"2","0","1","4","0","1","1","5","0","0","0","0">>

JobFeb03 == <<"2","0","1","4","0","2","0","3","1","0","1","0">>

JobJan02x == <<"2","0","1","4","0","1","0","2","1","2","5","5","0">>

Misc == <<"m","i","s","c">>

TopUniverse ==
    {[p |-> <<n>>, k |-> "dir"] : n \in {JobJan02, JobJan15, JobFeb03, JobJan02x, Misc}}
    \cup {[p |-> <<JobFeb03>>, k |-> "link"], [p |-> <<Misc>>, k |-> "unstatable"]}

\* what a directory at path d may hold
NestedUniverse(d) ==
    IF Len(d) = 1
    THEN {[p |-> Append(d, <<"a">>), k |-> k] : k \in {"file", "dir", "link", "other", "unstatable"}}
         \cup {[p |-> Append(d, <<"s","n","f","s","1">>), k |-> k] : k \in {"file", "dir"}}
    ELSE {[p |-> Append(d, <<"b">>), k |-> k] : k \in {"file", "link"}}

Paths(t) == {n.p : n \in t}

Dirs(t) == {n \in t : n.k = "dir"}

Nested(t) == {n \in t : Len(n.p) > 1}

Children(t, d) == {n \in t : Len(n.p) = Len(d) + 1 /\ SubSeq(n.p, 1, Len(d)) = d}

RECURSIVE TopTrees(_)
TopTrees(n) ==
    IF n = 0 THEN {{}}
    ELSE LET S == TopTrees(n - 1) IN
         S \cup UNION {{t \cup {c} : c \in {u \in TopUniverse : u.p \notin Paths(t)}} : t \in S}

RECURSIVE NestedTrees(_)
NestedTrees(n) ==
    IF n = 0 THEN TopTrees(MaxTop)
    ELSE LET S == NestedTrees(n - 1) IN
         S \cup UNION {{t \cup {c} :
                          c \in {u \in UNION {NestedUniverse(d.p) : d \in Dirs(t)} :
                                    u.p \notin Paths(t)}} : t \in S}

Trees == {t \in NestedTrees(MaxNested) : Cardinality(Nested(t)) <= MaxNested}

\* entry.is_dir(follow_symlinks=False), entry.is_file(follow_symlinks=False)
\* and entry.is_symlink(), and whether the lstat they may need fails
lstat_fails(e) == e.k = "unstatable"

is_dir(e) == e.k = "dir"

is_file(e) == e.k = "file"

\* faulty variant: everything taken for a symlink
is_symlink_any(e) == TRUE

is_symlink(e) == e.k = "link"

\* what scandir(e) lists: the children of a directory; through a symlink,
\* the children of the directory it points to, under the symlink's path
Listing(e) ==
    IF e.k = "link"
    THEN {[p |-> Append(e.p, c.p[Len(c.p)]), k |-> c.k] :
             c \in Children(fs, SubSeq(e.p, 1, Len(e.p) - 1))}
    ELSE Children(fs, e.p)

\* DirEntry.name and DirEntry.path (scandir joins the directory and the name)
EntryName(e) == e.p[Len(e.p)]

RECURSIVE JoinNames(_)
JoinNames(p) == IF p = <<>> THEN <<>> ELSE <<"/">> \o Head(p) \o JoinNames(Tail(p))

EntryPath(e) == MANUAL_ARCHIVE_ROOT \o JoinNames(e.p)

(***************************************************************************)
(* scan_archive.py: ManifestWriter.  Its methods are operators on a record *)
(* m of the writer's fields and of what they act on (the open file         *)
(* objects, the working directory, the log); m.exc is the exception a      *)
(* method raised, NOEXC when it returned.                                  *)
(***************************************************************************)
NoFile == [fd |-> 0, name |-> NONE]

NoPattern == [pattern |-> "None", offset |-> 0, timestamp_group |-> 0, archive |-> NONE]

NoWriter ==
    [archive |-> NONE, pattern |-> NoPattern, current_month |-> NONE,
     current_file_name |-> NONE, current_file |-> NoFile,
     current_writer |-> NoFile, links_file |-> NoFile]

NoEntry == [p |-> <<>>, k |-> "None"]

\* [f[3:] for f in STAT_FIELDS] + ['path']
Header == <<"mode", "ino", "dev", "nlink", "uid", "gid", "size", "atime",
            "mtime", "ctime", "path">>

LogRec(level, msg, arg) == [level |-> level, msg |-> msg, arg |-> arg]

\* open(name, 'w'): a new file object on a created or truncated file
Open(m, name) ==
    [m EXCEPT !.open_files = @ \cup {[fd |-> m.next_fd, name |-> name]},
              !.files = (name :> <<>>) @@ @,
              !.next_fd = @ + 1]

\* print(..., file=f) and csv's writerow: one more row in the file f is open on
WriteRow(m, f, row) ==
    IF f \notin m.open_files THEN [m EXCEPT !.exc = "ValueError"]
    ELSE [m EXCEPT !.files[f.name] = Append(@, row)]

\* faulty variant: the fields cleared, the file left open
close_month_leak(m) ==
    [m EXCEPT !.writer.current_month = NONE,
              !.writer.current_file_name = NONE,
              !.writer.current_file = NoFile,
              !.writer.current_writer = NoFile]

close_month(m) ==
    [m EXCEPT !.open_files = IF m.writer.current_file # NoFile
                             THEN @ \ {m.writer.current_file} ELSE @,
              !.writer.current_month = NONE,
              !.writer.current_file_name = NONE,
              !.writer.current_file = NoFile,
              !.writer.current_writer = NoFile]

open_new_month(m, month) ==
    LET m1 == close_month([m EXCEPT !.log = Append(@, LogRec("INFO", "new_month", month))])
        name == m1.writer.archive \o <<"-">> \o month \o <<".","t","s","v">>
        m2 == Open(m1, name)
        f == [fd |-> m1.next_fd, name |-> name]
    IN  [m2 EXCEPT !.writer.current_month = month,
                   !.writer.current_file_name = name,
                   !.writer.current_file = f,
                   !.writer.current_writer = f,
                   !.opened = Append(@, month)]

\* readlink's answer for every symlink that resolves
LinkTarget == <<".">>

\* faulty variant: readlink outside any try
write_symlink_record_raises(m, e, ok) ==
    IF ~ok
    THEN [m EXCEPT !.exc = "OSError", !.env.readlink_failed = @ \cup {e.p}]
    ELSE WriteRow(m, m.writer.links_file, <<EntryPath(e), LinkTarget>>)

write_symlink_record(m, e, ok) ==
    LET path == EntryPath(e) IN
    IF ~ok
    THEN [m EXCEPT !.log = Append(@, LogRec("ERROR", "exception during readlink", NONE)),
                   !.env.readlink_failed = @ \cup {e.p}]
    ELSE WriteRow(m, m.writer.links_file, <<path, LinkTarget>>)

\* faulty variant: a partition opened only when none is open
month_changed_first_only(m, month) == m.writer.current_month = NONE

\* faulty variant: a partition opened for every record
month_changed_always(m, month) == TRUE

\* month != self.current_month
month_changed(m, month) == month # m.writer.current_month

\* faulty variant: stat outside any try
stat_and_write_raises(m, e, ok) ==
    IF ~ok
    THEN [m EXCEPT !.exc = "OSError", !.env.stat_failed = @ \cup {e.p}]
    ELSE WriteRow(m, m.writer.current_writer, [stat |-> e.p, path |-> EntryPath(e)])

\* try: entry.stat(follow_symlinks=False) / except: log / else: writerow.
\* A row's ten rounded stat fields are the identity e.p of the entry they
\* were read from.
stat_and_write(m, e, ok) ==
    IF ~ok
    THEN [m EXCEPT !.log = Append(@, LogRec("ERROR", "exception during stat", NONE)),
                   !.env.stat_failed = @ \cup {e.p}]
    ELSE IF m.writer.current_writer = NoFile
    THEN [m EXCEPT !.exc = "AttributeError"]
    ELSE WriteRow(m, m.writer.current_writer, [stat |-> e.p, path |-> EntryPath(e)])

write_file_record(m, e, ok) ==
    IF ~is_file(e) THEN [m EXCEPT !.exc = "AssertionError"]
    ELSE
      LET path == EntryPath(e)
          r == match(m.writer.pattern, path)
      IN
      IF r.exc # NOEXC THEN [m EXCEPT !.exc = r.exc]
      ELSE IF ~(Truthy(r.archive_time_str) /\ Truthy(r.archive) /\ Truthy(r.original_path))
      THEN [m EXCEPT !.log = Append(@, LogRec("ERROR", "failed parse", path))]
      ELSE IF r.archive # m.writer.archive THEN [m EXCEPT !.exc = "AssertionError"]
      ELSE
        LET month == Slice(r.archive_time_str, 0, 7)
            m1 == IF month_changed(m, month) THEN open_new_month(m, month) ELSE m
        IN  stat_and_write(m1, e, ok)

write_record(m, e, ok) ==
    IF is_symlink(e) THEN write_symlink_record(m, e, ok) ELSE write_file_record(m, e, ok)

\* faulty variant: the symlinks file left open
close_month_only(m) == close_month(m)

\* close: _close_month(), then links_file.close()
close(m) ==
    LET m1 == close_month(m) IN
    IF m1.writer.links_file = NoFile THEN [m1 EXCEPT !.exc = "AttributeError"]
    ELSE [m1 EXCEPT !.open_files = @ \ {m1.writer.links_file},
                    !.writer.links_file = NoFile]

\* faulty variant: the header file left open
with_exit_leak(m, f) == m

\* the end of `with open(...) as header_file`: the file is closed
with_exit(m, f) == [m EXCEPT !.open_files = @ \ {f}]

\* faulty variant: the two patterns taken the wrong way round
init_fields_swapped(m, a) ==
    IF a \notin {AUTO, MANUAL} THEN [m EXCEPT !.exc = "AssertionError"]
    ELSE close_month([m EXCEPT !.writer =
            [NoWriter EXCEPT !.archive = a,
                             !.pattern = IF a = AUTO THEN MANUAL_PATTERN ELSE AUTO_PATTERN]])

\* __init__ up to the opening of the header file
init_fields(m, a) ==
    IF a \notin {AUTO, MANUAL} THEN [m EXCEPT !.exc = "AssertionError"]
    ELSE close_month([m EXCEPT !.writer =
            [NoWriter EXCEPT !.archive = a,
                             !.pattern = IF a = AUTO THEN AUTO_PATTERN ELSE MANUAL_PATTERN]])

HeaderName(a) == a \o <<"-","0","0","0","0","-","0","0",".","t","s","v">>

LinksName(a) == a \o <<"-","s","y","m","l","i","n","k","s",".","t","s","v">>

(***************************************************************************)
(* scan_archive.py: the traversal                                          *)
(***************************************************************************)
\* MANUAL_DIR_NAME_PAT.match(name): r'\d{12}' at the start of name
MANUAL_DIR_NAME_PAT(name) == Len(name) >= 12 /\ AllDigits(SubSeq(name, 1, 12))

\* faulty variant: sorted the wrong way round
RECURSIVE SortedByName_reverse(_)
SortedByName_reverse(S) ==
    IF S = {} THEN <<>>
    ELSE LET most == CHOOSE e \in S :
                        \A o \in S \ {e} : StrLess(EntryName(o), EntryName(e))
         IN  <<most>> \o SortedByName_reverse(S \ {most})

\* sorted(top_contents, key=attrgetter('name'))
RECURSIVE SortedByName(_)
SortedByName(S) ==
    IF S = {} THEN <<>>
    ELSE LET least == CHOOSE e \in S :
                         \A o \in S \ {e} : StrLess(EntryName(e), EntryName(o))
         IN  <<least>> \o SortedByName(S \ {least})

\* iterate_files(e): scandir(e) opens the listing, or fails and is logged
iterate_files(st, e, ok) ==
    IF ok THEN Append(st, [dir |-> e.p, rest |-> Listing(e)]) ELSE st

ScandirLog(lg, ok) ==
    IF ok THEN lg ELSE Append(lg, LogRec("ERROR", "exception during scandir", NONE))

ScandirEnv(ev, e, ok) ==
    IF ok THEN ev ELSE [ev EXCEPT !.scandir_failed = @ \cup {e.p}]

(***************************************************************************)
(* The run                                                                 *)
(***************************************************************************)
Cur == [writer |-> writer, open_files |-> open_files, files |-> files,
        next_fd |-> next_fd, opened |-> opened, log |-> log, env |-> env,
        exc |-> NOEXC]

Commit(m) ==
    /\ writer' = m.writer
    /\ open_files' = m.open_files
    /\ files' = m.files
    /\ next_fd' = m.next_fd
    /\ opened' = m.opened
    /\ log' = m.log
    /\ env' = m.env

\* scandir_failed: directories that could not be listed (<<>> is the root);
\* lstat_failed: entries whose is_dir raised; abandoned: entries of a
\* listing given up before they were looked at
NoFailure == [stat_failed |-> {}, readlink_failed |-> {}, scandir_failed |-> {},
              lstat_failed |-> {}, abandoned |-> {}]

NoCall == [pat |-> NoPattern, path |-> NONE]

NotCalled == Raised("NotCalled")

Init ==
    /\ archive \in {AUTO, MANUAL}
    /\ fs \in Trees
    /\ pc = "start"
    /\ err = NOEXC
    /\ top = <<>>
    /\ stack = <<>>
    /\ entry = NoEntry
    /\ yielded = <<>>
    /\ writer = NoWriter
    /\ open_files = {}
    /\ files = <<>>
    /\ next_fd = 1
    /\ opened = <<>>
    /\ log = <<>>
    /\ env = NoFailure
    /\ call = NoCall
    /\ ret = NotCalled

\* run(archive)
Run ==
    /\ pc = "start"
    /\ log' = Append(log, LogRec("INFO", "scanning", archive))
    /\ IF archive = MANUAL
       THEN pc' = "construct" /\ err' = err
       ELSE pc' = "fatal" /\ err' = "AssertionError"
    /\ UNCHANGED <<archive, fs, top, stack, entry, yielded, writer, open_files,
                   files, next_fd, opened, env, call, ret>>

\* ManifestWriter('manual'): __init__ to the opening of the header file
Construct ==
    /\ pc = "construct"
    /\ LET m == init_fields(Cur, MANUAL) IN
       IF m.exc # NOEXC
       THEN pc' = "fatal" /\ err' = m.exc /\ Commit(m)
       ELSE pc' = "header" /\ err' = err /\ Commit(Open(m, HeaderName(m.writer.archive)))
    /\ UNCHANGED <<archive, fs, top, stack, entry, yielded, call, ret>>

\* __init__: the body and the end of `with open(...) as header_file`
WriteHeader ==
    /\ pc = "header"
    /\ \E header_file \in open_files :
          /\ header_file.name = HeaderName(writer.archive)
          /\ Commit(with_exit(WriteRow(Cur, header_file, Header), header_file))
    /\ pc' = "links"
    /\ UNCHANGED <<archive, err, fs, top, stack, entry, yielded, call, ret>>

\* __init__: self.links_file = open(archive + '-symlinks.tsv', 'w')
OpenLinks ==
    /\ pc = "links"
    /\ LET m == Open(Cur, LinksName(writer.archive)) IN
       Commit([m EXCEPT !.writer.links_file =
                  [fd |-> next_fd, name |-> LinksName(writer.archive)]])
    /\ pc' = "scan"
    /\ UNCHANGED <<archive, err, fs, top, stack, entry, yielded, call, ret>>

\* iterate_manual_archive: scandir(MANUAL_ARCHIVE_ROOT), sorted by name
ScanRoot ==
    /\ pc = "scan"
    /\ \E ok \in BOOLEAN :
          IF ok
          THEN /\ top' = SortedByName({n \in fs : Len(n.p) = 1})
               /\ pc' = "iter"
               /\ UNCHANGED <<err, env>>
          ELSE /\ env' = [env EXCEPT !.scandir_failed = @ \cup {<<>>}]
               /\ err' = "OSError"
               /\ pc' = "exit"
               /\ top' = top
    /\ UNCHANGED <<archive, fs, stack, entry, yielded, writer, open_files, files,
                   next_fd, opened, log, call, ret>>

\* iterate_manual_archive: one turn of the loop over the sorted entries; an
\* OSError from is_dir is caught nowhere and ends the generator
IterTop ==
    /\ pc = "iter"
    /\ stack = <<>>
    /\ top # <<>>
    /\ LET e == Head(top) IN
       /\ top' = Tail(top)
       /\ IF lstat_fails(e)
          THEN /\ err' = "OSError"
               /\ pc' = "exit"
               /\ env' = [env EXCEPT !.lstat_failed = @ \cup {e.p}]
               /\ UNCHANGED <<stack, log>>
          ELSE IF is_dir(e) /\ MANUAL_DIR_NAME_PAT(EntryName(e))
          THEN \E ok \in BOOLEAN :
                  /\ stack' = iterate_files(stack, e, ok)
                  /\ log' = ScandirLog(log, ok)
                  /\ env' = ScandirEnv(env, e, ok)
                  /\ UNCHANGED <<pc, err>>
          ELSE UNCHANGED <<pc, err, stack, log, env>>
    /\ UNCHANGED <<archive, fs, entry, yielded, writer, open_files, files,
                   next_fd, opened, call, ret>>

\* iterate_manual_archive is exhausted: the for loop of scan_manual_archive ends
IterDone ==
    /\ pc = "iter"
    /\ stack = <<>>
    /\ top = <<>>
    /\ pc' = "exit"
    /\ UNCHANGED <<archive, err, fs, top, stack, entry, yielded, writer, open_files,
                   files, next_fd, opened, log, env, call, ret>>

\* iterate_files: one turn of the loop of the innermost generator; scandir
\* lists a directory in any order; an OSError from is_dir is caught by the
\* except of line 189, which ends this generator
IterFiles ==
    /\ pc = "iter"
    /\ stack # <<>>
    /\ LET n == Len(stack)
           frame == stack[n]
       IN
       IF frame.rest = {}
       THEN /\ stack' = SubSeq(stack, 1, n - 1)
            /\ UNCHANGED <<pc, entry, yielded, log, env>>
       ELSE \E e \in frame.rest :
              LET st == [stack EXCEPT ![n].rest = @ \ {e}] IN
              IF lstat_fails(e)
              THEN /\ stack' = SubSeq(stack, 1, n - 1)
                   /\ log' = ScandirLog(log, FALSE)
                   /\ env' = [env EXCEPT !.lstat_failed = @ \cup {e.p},
                                         !.abandoned = @ \cup Paths(frame.rest)]
                   /\ UNCHANGED <<pc, entry, yielded>>
              ELSE IF is_dir(e)
              THEN \E ok \in BOOLEAN :
                      /\ stack' = iterate_files(st, e, ok)
                      /\ log' = ScandirLog(log, ok)
                      /\ env' = ScandirEnv(env, e, ok)
                      /\ UNCHANGED <<pc, entry, yielded>>
              ELSE IF is_file(e) \/ is_symlink(e)
              THEN /\ stack' = st
                   /\ entry' = e
                   /\ yielded' = Append(yielded, e)
                   /\ pc' = "write"
                   /\ UNCHANGED <<log, env>>
              ELSE /\ stack' = st
                   /\ log' = Append(log, LogRec("WARNING", "unexpected object type",
                                                EntryPath(e)))
                   /\ UNCHANGED <<pc, entry, yielded, env>>
    /\ UNCHANGED <<archive, err, fs, top, writer, open_files, files, next_fd,
                   opened, call, ret>>

\* writer.write_record(entry); ok is whether readlink or stat succeeds
WriteRecord ==
    /\ pc = "write"
    /\ \E ok \in BOOLEAN :
          LET m == write_record(Cur, entry, ok) IN
          /\ Commit(m)
          /\ err' = m.exc
          /\ pc' = IF m.exc = NOEXC THEN "iter" ELSE "exit"
    /\ entry' = NoEntry
    /\ UNCHANGED <<archive, fs, top, stack, yielded, call, ret>>

\* __exit__: close(), and the exception, if any, goes on
Exit ==
    /\ pc = "exit"
    /\ LET m == close(Cur) IN
       /\ Commit(m)
       /\ err' = IF err # NOEXC THEN err ELSE m.exc
       /\ pc' = IF err = NOEXC /\ m.exc = NOEXC THEN "done" ELSE "fatal"
    /\ UNCHANGED <<archive, fs, top, stack, entry, yielded, call, ret>>

Next ==
    \/ Run
    \/ Construct
    \/ WriteHeader
    \/ OpenLinks
    \/ ScanRoot
    \/ IterTop
    \/ IterDone
    \/ IterFiles
    \/ WriteRecord
    \/ Exit

Spec == Init /\ [][Next]_vars

(***************************************************************************)
(* ArchivePattern.match as a function: either pattern on any of TestPaths  *)
(***************************************************************************)
TestHeads ==
    {<<"/","s","t","o","r","n","e","x","t","/","s","n","f","s","a","/","a","r",
       "c","h","i","v","e","/">>,
     <<"/","s","t","o","r","n","e","x","t","/","s","n","f","s","a","/","a","r",
       "c","h","i","v","e","/","a","r","c","h","i","v","e","_","j","o","b","s","/">>,
     <<"/","x","/","s","t","o","r","n","e","x","t","/","s","n","f","s","a","/",
       "a","r","c","h","i","v","e","/">>}

TestJobs ==
    {<<"2","0","2","4","/","0","3","/","2","0","2","4","0","3","1","5","0","9","3","0">>,
     <<"2","0","2","4","/","0","3","/","2","0","2","4","0","4","1","5","0","9","3","0">>,
     <<"2","0","2","4","/","0","3","/","2","0","2","4","0","3","1","5","0","9","3">>,
     <<"2","0","2","4","/","0","3","/","2","0","2","4","0","3","1","5","0","9","3","0","0","0">>,
     <<"1","9","9","9","/","0","3","/","1","9","9","9","0","3","1","5","0","9","3","0">>,
     <<"2","0","1","4","0","1","0","2","1","2","5","5">>,
     <<"2","0","1","4","0","1","0","2","1","2","5","5","0">>,
     <<"2","0","1","4","0","1","0","2","1","2","5">>,
     <<"1","9","9","9","1","2","0","1","0","0","0","0">>,
     <<"2","0","1","4","1","3","4","5","9","9","9","9">>}

TestTails ==
    {<<>>,
     <<"/">>,
     <<"/","a">>,
     <<"/","s","n","f","s">>,
     <<"/","s","n","f","s","1","/","x">>,
     <<"/","s","t","o","r","n","e","x","t","/","s","n","f","s","1","/","x">>,
     <<"/","d","a","t","a","/","r","e","p","o","r","t",".","c","s","v">>,
     <<"x","x","/","d","a","t","a","/","r","e","p","o","r","t",".","c","s","v">>}

TestPaths == {h \o j \o t : h \in TestHeads, j \in TestJobs, t \in TestTails}

InitMatch ==
    /\ call \in [pat : {AUTO_PATTERN, MANUAL_PATTERN}, path : TestPaths]
    /\ ret = NotCalled
    /\ archive = MANUAL
    /\ fs = {}
    /\ pc = "match"
    /\ err = NOEXC
    /\ top = <<>>
    /\ stack = <<>>
    /\ entry = NoEntry
    /\ yielded = <<>>
    /\ writer = NoWriter
    /\ open_files = {}
    /\ files = <<>>
    /\ next_fd = 1
    /\ opened = <<>>
    /\ log = <<>>
    /\ env = NoFailure

\* call.pat.match(call.path)
CallMatch ==
    /\ pc = "match"
    /\ ret = NotCalled
    /\ ret' = match(call.pat, call.path)
    /\ pc' = "returned"
    /\ UNCHANGED <<archive, err, fs, top, stack, entry, yielded, writer, open_files,
                   files, next_fd, opened, log, env, call>>

NextMatch == CallMatch

SpecMatch == InitMatch /\ [][NextMatch]_vars

(***************************************************************************)
(* Properties                                                              *)
(***************************************************************************)
PartitionName(a, month) == a \o <<"-">> \o month \o <<".","t","s","v">>

\* the month partitions in the working directory
PartitionNames == DOMAIN files \ {HeaderName(MANUAL), LinksName(MANUAL)}

\* the open file objects that are month partitions
MonthFilesOpen ==
    {f \in open_files :
        f.name \notin {HeaderName(AUTO), HeaderName(MANUAL), LinksName(AUTO), LinksName(MANUAL)}}

\* The month a node was archived in, read off the name of the job directory
\* it lies under: a node is dated when that name is 20 and ten more digits.
Dated(p) ==
    /\ Len(p) >= 2
    /\ Len(p[1]) = 12
    /\ AllDigits(p[1])
    /\ SubSeq(p[1], 1, 2) = <<"2","0">>

JobMonth(p) == SubSeq(p[1], 1, 4) \o <<"-">> \o SubSeq(p[1], 5, 6)

DatedFiles == {n \in fs : n.k = "file" /\ Dated(n.p)}

\* no directory above the node failed to list, and neither the node nor a
\* directory above it was in a listing given up before it was looked at
Reached(n) ==
    /\ \A k \in 0..(Len(n.p) - 1) : SubSeq(n.p, 1, k) \notin env.scandir_failed
    /\ \A k \in 1..Len(n.p) : SubSeq(n.p, 1, k) \notin env.abandoned

\* the entries write_record has returned from
Processed == IF pc = "write" THEN SubSeq(yielded, 1, Len(yielded) - 1) ELSE yielded

\* C1: in every reachable state at most one month partition file is open,
\* and it is the writer's current file.
C1_OnePartitionOpen ==
    /\ Cardinality(MonthFilesOpen) <= 1
    /\ MonthFilesOpen \subseteq {writer.current_file}

\* a second month has been opened and exactly one partition is open
C1_Witness == Len(opened) = 2 /\ Cardinality(MonthFilesOpen) = 1

\* C2: the months passed to _open_new_month during one scan are strictly
\* increasing, so no partition is opened twice.
C2_MonthsIncrease ==
    \A i, j \in 1..Len(opened) : i < j => StrLess(opened[i], opened[j])

\* a finished scan that opened two months
C2_Witness == pc = "done" /\ Len(opened) = 2

\* C3 as stated: after a complete scan there is one partition per month of
\* the tree's dated regular files, each with one row per such file.
C3_Original ==
    pc = "done" =>
        LET months == {JobMonth(n.p) : n \in DatedFiles} IN
        /\ PartitionNames = {PartitionName(MANUAL, mo) : mo \in months}
        /\ \A mo \in months :
              Len(files[PartitionName(MANUAL, mo)])
                 = Cardinality({n \in DatedFiles : JobMonth(n.p) = mo})

\* C3 as amended: after a complete scan there is one partition per month of
\* the dated regular files that the traversal reached, each with one row
\* per such file whose stat succeeded.
C3_Amended ==
    pc = "done" =>
        LET found == {n \in DatedFiles : Reached(n)}
            months == {JobMonth(n.p) : n \in found}
        IN
        /\ PartitionNames = {PartitionName(MANUAL, mo) : mo \in months}
        /\ \A mo \in months :
              Len(files[PartitionName(MANUAL, mo)])
                 = Cardinality({n \in found : JobMonth(n.p) = mo /\ n.p \notin env.stat_failed})

\* a finished scan over two months, one file written and one whose stat failed
C3_Witness ==
    /\ pc = "done"
    /\ Cardinality(PartitionNames) = 2
    /\ env.stat_failed # {}
    /\ \E name \in PartitionNames : Len(files[name]) = 1

RowsInOwnMonth ==
    \A name \in PartitionNames :
        \A i \in 1..Len(files[name]) :
            /\ Dated(files[name][i].stat)
            /\ name = PartitionName(MANUAL, JobMonth(files[name][i].stat))

RowCount(f, name) == IF name \in DOMAIN f THEN Len(f[name]) ELSE 0

WriterowWhileOpen ==
    \A name \in DOMAIN files' \ {HeaderName(MANUAL), LinksName(MANUAL)} :
        RowCount(files', name) > RowCount(files, name) =>
            /\ writer'.current_writer # NoFile
            /\ writer'.current_writer \in open_files'
            /\ writer'.current_writer.name = name
            /\ writer'.current_month = JobMonth(files'[name][Len(files'[name])].stat)

\* C4: every row lies in the partition of its own month, and the step that
\* writes a row leaves the writer open on that partition with current_month
\* the row's month; writerow never meets a missing or closed writer.
C4_RowInItsMonth ==
    /\ [](RowsInOwnMonth /\ err \notin {"AttributeError", "ValueError"})
    /\ [][WriterowWhileOpen]_vars

\* two partitions hold rows
C4_Witness == Cardinality({name \in PartitionNames : files[name] # <<>>}) = 2

\* C5 as stated: the path column of every manifest row is the original path
\* match returns for the entry the row was read from.
C5_PathColumnIsOriginal ==
    \A name \in PartitionNames :
        \A i \in 1..Len(files[name]) :
            files[name][i].path
               = match(MANUAL_PATTERN, EntryPath([p |-> files[name][i].stat, k |-> "file"])).original_path

\* C6 as stated: a run with archive kind auto does not end in a fatal error
\* and writes only partitions named auto-YYYY-MM.tsv.
C6_AutoScanRuns ==
    archive = AUTO =>
        /\ pc # "fatal"
        /\ \A name \in PartitionNames : startswith(name, AUTO \o <<"-">>)

\* match has returned from a manual-rule path whose suffix starts with /snfs
C7_Case ==
    /\ pc = "returned"
    /\ call.pat = MANUAL_PATTERN
    /\ re_match(call.pat, call.path).matched
    /\ startswith(SliceFrom(call.path, call.pat.offset), <<"/","s","n","f","s">>)

\* C7 as stated: the returned path is 7 characters longer than the suffix.
C7_Original ==
    C7_Case =>
        /\ ret.exc = NOEXC
        /\ startswith(ret.original_path,
                      <<"/","s","t","o","r","n","e","x","t","/","s","n","f","s">>)
        /\ Len(ret.original_path) = Len(SliceFrom(call.path, call.pat.offset)) + 7

\* C7 as amended: the returned path begins with /stornext/snfs and is 9
\* characters longer than the suffix.
C7_Amended ==
    C7_Case =>
        /\ ret.exc = NOEXC
        /\ startswith(ret.original_path,
                      <<"/","s","t","o","r","n","e","x","t","/","s","n","f","s">>)
        /\ Len(ret.original_path) = Len(SliceFrom(call.path, call.pat.offset)) + 9

C7_Witness == C7_Case /\ ret.exc = NOEXC /\ Len(ret.original_path) = 17

\* match has returned from a path that matches the auto rule
C8_Case ==
    /\ pc = "returned"
    /\ call.pat = AUTO_PATTERN
    /\ re_match(call.pat, call.path).matched

\* the result is a suffix of the path that starts at the separator right
\* after the 12-digit job directory
C8_CleanSuffix ==
    LET cut == Len(call.path) - Len(ret.original_path) IN
    /\ ret.exc = NOEXC
    /\ ret.archive_time_str # NONE
    /\ ret.original_path # NONE
    /\ cut >= 12
    /\ call.path = SubSeq(call.path, 1, cut) \o ret.original_path
    /\ ret.original_path[1] = "/"
    /\ SubSeq(call.path, cut - 11, cut) = re_match(call.pat, call.path).group[3]

\* C8 as stated: match never raises on a path that matches the auto rule.
C8_Original == C8_Case => C8_CleanSuffix

\* C8 as amended: on a path that matches the auto rule match raises
\* AssertionError when the suffix starts with /snfs, and otherwise returns
\* the suffix that starts at the separator after the job directory.
C8_Amended ==
    C8_Case =>
        IF startswith(SliceFrom(call.path, call.pat.offset), <<"/","s","n","f","s">>)
        THEN ret.exc = "AssertionError"
        ELSE C8_CleanSuffix

C8_Witness ==
    /\ C8_Case
    /\ ret.exc = NOEXC
    /\ ret.original_path = <<"/","d","a","t","a","/","r","e","p","o","r","t",".","c","s","v">>

\* write_record is about to handle a regular file whose path does not match
C9_Unparsed ==
    /\ pc = "write"
    /\ entry.k = "file"
    /\ ~re_match(writer.pattern, EntryPath(entry)).matched

\* C9: for a regular file whose path does not match, match returns the
\* no-match signal, write_record writes nothing and leaves the partition
\* state as it was, and the loop goes on.
C9_NoMatchDropped ==
    [][C9_Unparsed =>
          /\ match(writer.pattern, EntryPath(entry)) = NoMatch
          /\ files' = files
          /\ open_files' = open_files
          /\ writer' = writer
          /\ opened' = opened
          /\ err' = NOEXC
          /\ pc' = "iter"]_vars

\* an unparsed file was dropped and a later file was written
C9_Witness ==
    /\ pc = "done"
    /\ \E i \in 1..Len(log) : log[i].msg = "failed parse"
    /\ Len(yielded) = 2
    /\ ~Dated(yielded[1].p)
    /\ \E name \in PartitionNames : Len(files[name]) = 1

IsResolvedLink(e) == e.k = "link" /\ e.p \notin env.readlink_failed

\* C10: the symlinks file holds exactly one (path, target) row per handled
\* symlink whose readlink succeeded, in order; no symlink has a row in a
\* month partition; a failed readlink ends no run, and a finished scan has
\* yielded every file and symlink that the traversal reached under the job
\* directories.
C10_Symlinks ==
    /\ LinksName(MANUAL) \in DOMAIN files =>
          LET links == SelectSeq(Processed, IsResolvedLink) IN
          files[LinksName(MANUAL)]
             = [i \in 1..Len(links) |-> <<EntryPath(links[i]), LinkTarget>>]
    /\ \A name \in PartitionNames :
          \A i \in 1..Len(files[name]) :
              [p |-> files[name][i].stat, k |-> "link"] \notin fs
    /\ err # NOEXC =>
          (archive = AUTO \/ <<>> \in env.scandir_failed \/ env.lstat_failed # {})
    /\ pc = "done" =>
          \A n \in fs :
              (n.k \in {"file", "link"} /\ Len(n.p) >= 2
                  /\ MANUAL_DIR_NAME_PAT(n.p[1]) /\ Reached(n))
              => \E i \in 1..Len(yielded) : yielded[i] = n

\* a finished scan with one symlink resolved and one not
C10_Witness ==
    /\ pc = "done"
    /\ env.readlink_failed # {}
    /\ Len(files[LinksName(MANUAL)]) = 1

\* C11: a matched regular file whose stat fails gets no row in any
\* partition, the failure ends no run and the loop goes on, and a finished
\* scan has a row for every other dated file the traversal reached.
C11_StatFailureDropsRecord ==
    /\ [](/\ \A name \in PartitionNames :
                \A i \in 1..Len(files[name]) :
                    files[name][i].stat \notin env.stat_failed
          /\ pc = "done" =>
                \A n \in DatedFiles :
                    (Reached(n) /\ n.p \notin env.stat_failed)
                    => \E i \in 1..Len(files[PartitionName(MANUAL, JobMonth(n.p))]) :
                          files[PartitionName(MANUAL, JobMonth(n.p))][i].stat = n.p)
    /\ [][env'.stat_failed # env.stat_failed =>
             /\ \A name \in PartitionNames : files'[name] = files[name]
             /\ err' = NOEXC
             /\ pc' = "iter"]_vars

\* the stat of the first of two files failed and the second has its row
C11_Witness ==
    /\ pc = "done"
    /\ Len(yielded) = 2
    /\ yielded[1].p \in env.stat_failed
    /\ \E name \in PartitionNames :
          Len(files[name]) = 1 /\ files[name][1].stat = yielded[2].p

\* p comes before q in a depth-first pre-order that takes the children of
\* every directory in the order of their names
PathLess(p, q) ==
    \/ Len(p) < Len(q) /\ SubSeq(q, 1, Len(p)) = p
    \/ \E k \in 1..Min(Len(p), Len(q)) :
          /\ SubSeq(p, 1, k - 1) = SubSeq(q, 1, k - 1)
          /\ StrLess(p[k], q[k])

\* C12: the entries are yielded in depth-first pre-order with the children
\* of every directory, the root and the nested ones, taken in the order of
\* their names, whatever order the filesystem lists them in.
C12_SortedPreorder ==
    \A i, j \in 1..Len(yielded) :
        i < j => PathLess(yielded[i].p, yielded[j].p)

\* a symlink the traversal came to in a listing below a job directory
C13_ReachedLinks ==
    {n \in fs : n.k = "link" /\ Len(n.p) >= 2 /\ MANUAL_DIR_NAME_PAT(n.p[1]) /\ Reached(n)}

\* a symlink in the listing of the root
C13_TopLinks == {n \in fs : n.k = "link" /\ Len(n.p) = 1}

\* only directories of the tree are ever listed, each frame one level below
\* the one before, and every yielded entry is an entry of the tree itself,
\* none seen through a symlink
C13_NeverThroughSymlink ==
    /\ \A k \in 1..Len(stack) :
          Len(stack[k].dir) = k /\ [p |-> stack[k].dir, k |-> "dir"] \in fs
    /\ \A i \in 1..Len(yielded) : yielded[i] \in fs
    /\ \A i, j \in 1..Len(yielded) : yielded[i] = yielded[j] => i = j

\* C13: no symlink is recursed into, and every symlink of the scanned
\* tree, one in the root's listing included, is yielded.
C13_SymlinksYielded ==
    /\ C13_NeverThroughSymlink
    /\ pc = "done" =>
          \A n \in C13_ReachedLinks \cup C13_TopLinks :
              \E i \in 1..Len(yielded) : yielded[i] = n

\* the "exception during scandir" records of the log
C14_ScandirLogs == SelectSeq(log, LAMBDA r : r.msg = "exception during scandir")

\* C14: every directory that fails to list is logged, nothing below it is
\* yielded, and no run is ended by a listing failure, the root's included.
C14_ListingFailureCaught ==
    /\ Cardinality(env.scandir_failed) <= Len(C14_ScandirLogs)
    /\ \A d \in env.scandir_failed :
          \A i \in 1..Len(yielded) :
              ~(Len(yielded[i].p) > Len(d) /\ SubSeq(yielded[i].p, 1, Len(d)) = d)
    /\ \A d \in env.scandir_failed : err = NOEXC \/ env.lstat_failed # {}

\* C15: an entry that is no directory, regular file or symlink, one that
\* cannot be stat'ed included, is not yielded, ends no run, and costs the
\* entries listed beside it nothing.
C15_OthersSkipped ==
    /\ \A i \in 1..Len(yielded) : yielded[i].k \notin {"other", "unstatable"}
    /\ env.lstat_failed # {} => err = NOEXC
    /\ env.abandoned = {}

\* exactly twelve digits
C16_TwelveDigits(name) == Len(name) = 12 /\ AllDigits(name)

\* C16: only a first-level directory whose name is exactly twelve digits is
\* listed, and only such directories contribute entries.
C16_OnlyTwelveDigitDirs ==
    /\ \A k \in 1..Len(stack) : C16_TwelveDigits(stack[k].dir[1])
    /\ \A i \in 1..Len(yielded) : C16_TwelveDigits(yielded[i].p[1])

\* C17: once the run has ended, by exhaustion or by an exception, no output
\* file is open: the month partition and the symlinks file are closed and
\* the writer holds neither.
C17_AllClosedAtExit ==
    pc \in {"done", "fatal"} =>
        /\ open_files = {}
        /\ writer.current_file = NoFile
        /\ writer.current_writer = NoFile
        /\ writer.current_month = NONE
        /\ writer.links_file = NoFile

\* a run ended by an exception of the traversal after a partition had been
\* opened and a symlink row written
C17_Witness ==
    /\ pc = "fatal"
    /\ err = "OSError"
    /\ Len(opened) = 1
    /\ Len(files[LinksName(MANUAL)]) = 1
    /\ open_files = {}

\* C18: at most two output files are open in any state, the construction
\* of the writer included: while the header file is open nothing else is,
\* and afterwards only the symlinks file and the current partition are.
C18_AtMostTwoOpen ==
    /\ Cardinality(open_files) <= 2
    /\ (\E f \in open_files : f.name = HeaderName(MANUAL)) => Cardinality(open_files) = 1
    /\ pc \notin {"header", "links"} =>
          open_files \subseteq {writer.current_file, writer.links_file}

\* the header has been written and closed, and a partition and the symlinks
\* file are open
C18_Witness ==
    /\ Cardinality(open_files) = 2
    /\ Len(files[HeaderName(MANUAL)]) = 1
    /\ writer.current_file \in open_files
    /\ writer.links_file \in open_files

\* the writer that ManifestWriter(a) constructs
C19_Writer(a) == init_fields(Cur, a).writer

\* the call is the one _write_file_record makes for a writer of kind a, and
\* it returned three truthy values
C19_Case(a) ==
    /\ pc = "returned"
    /\ call.pat = C19_Writer(a).pattern
    /\ ret.exc = NOEXC
    /\ Truthy(ret.archive_time_str) /\ Truthy(ret.archive) /\ Truthy(ret.original_path)

\* C19: for a writer of either kind, whenever the match of its pattern
\* succeeds the kind returned is the writer's own, so the assertion
\* archive == self.archive cannot fail.
C19_KindsAgree ==
    \A a \in {AUTO, MANUAL} : C19_Case(a) => ret.archive = C19_Writer(a).archive

\* a successful match for a writer of kind auto
C19_Witness ==
    /\ C19_Case(AUTO)
    /\ ret.archive = AUTO
    /\ C19_Writer(AUTO).archive = AUTO

\* C20: every entry handed to write_record is a symlink or a regular file,
\* so an entry routed to _write_file_record is a regular file and its
\* assertion never fails.
C20_OnlyFilesAndSymlinks ==
    /\ \A i \in 1..Len(yielded) : yielded[i].k \in {"file", "link"}
    /\ pc = "write" =>
          /\ entry = yielded[Len(yielded)]
          /\ entry.k \in {"file", "link"}
    /\ archive = MANUAL => err # "AssertionError"

\* a finished scan that handed a symlink and a regular file to write_record
\* and wrote a row for each
C20_Witness ==
    /\ pc = "done"
    /\ \E i, j \in 1..Len(yielded) : yielded[i].k = "file" /\ yielded[j].k = "link"
    /\ \E name \in PartitionNames : Len(files[name]) = 1
    /\ Len(files[LinksName(MANUAL)]) = 1

====
